---- MODULE Spec2Model ----
(***************************************************************************)
(* Model of main.py: the incident labor calculator.  A run of main() is a  *)
(* sequence of steps (pc); the DataFrames are sequences of records, the    *)
(* texts (labels, emails, durations) are sequences of one-character        *)
(* strings so that the regular expressions and the sort order of groupby   *)
(* are computed, not assumed.                                              *)
(***************************************************************************)
EXTENDS Integers, Sequences, FiniteSets, TLC

\* ---------------------------------------------------------------- bounds
MaxLen == 4        \* longest enumerated duration text
MaxFiles == 3      \* most files under the root folder
MaxCostFiles == 2  \* most files when the wage configuration varies too

\* ------------------------------------------------------- text primitives
\* Printable ASCII in code-point order: Python compares str by code point.
\* (the double quote, the backslash and the backtick are spelled out)
Ascii ==
  << " ", "!", "dquote", "#", "$", "%", "&", "'", "(", ")", "*", "+", ",", "-", ".", "/",
     "0", "1", "2", "3", "4", "5", "6", "7", "8", "9", ":", ";", "<", "=", ">", "?",
     "@", "A", "B", "C", "D", "E", "F", "G", "H", "I", "J", "K", "L", "M", "N", "O",
     "P", "Q", "R", "S", "T", "U", "V", "W", "X", "Y", "Z", "[", "backslash", "]", "^", "_",
     "backtick", "a", "b", "c", "d", "e", "f", "g", "h", "i", "j", "k", "l", "m", "n", "o",
     "p", "q", "r", "s", "t", "u", "v", "w", "x", "y", "z", "{", "|", "}", "~" >>

Ord(c) == CHOOSE i \in 1..Len(Ascii) : Ascii[i] = c

DigitChars == <<"0", "1", "2", "3", "4", "5", "6", "7", "8", "9">>

\* regex \d
IsDigit(c) == \E i \in 1..Len(DigitChars) : DigitChars[i] = c

\* regex \s
IsSpace(c) == c = " "

DigitValue(c) == (CHOOSE i \in 1..Len(DigitChars) : DigitChars[i] = c) - 1

\* int("123")
RECURSIVE ToInt(_)
ToInt(ds) ==
  IF Len(ds) = 0 THEN 0
  ELSE 10 * ToInt(SubSeq(ds, 1, Len(ds) - 1)) + DigitValue(ds[Len(ds)])

\* str(n) for n >= 0
RECURSIVE ToStr(_)
ToStr(n) ==
  IF n < 10 THEN <<DigitChars[n + 1]>>
  ELSE ToStr(n \div 10) \o <<DigitChars[(n % 10) + 1]>>

\* s < t for Python str (code-point lexicographic, a proper prefix is smaller)
StrLess(s, t) ==
  \E k \in 1..(Len(t)) :
    /\ \A j \in 1..(k - 1) : j <= Len(s) /\ s[j] = t[j]
    /\ \/ k = Len(s) + 1
       \/ k <= Len(s) /\ Ord(s[k]) < Ord(t[k])

\* pandas missing value in a text column
NaN == <<"NaN">>

\* pandas missing value in a numeric column
NaNNum == -1

\* pd.isna
IsNa(v) == v = NaN

\* ------------------------------------------------------------ regex scan
\* last index of the run of digits that starts at i
DigitRunEnd(s, i) ==
  CHOOSE e \in i..Len(s) :
    /\ \A j \in i..e : IsDigit(s[j])
    /\ e = Len(s) \/ ~IsDigit(s[e + 1])

\* first index >= k that is not whitespace (Len(s) + 1 when there is none)
SkipSpaces(s, k) ==
  CHOOSE e \in k..(Len(s) + 1) :
    /\ \A j \in k..(e - 1) : IsSpace(s[j])
    /\ e = Len(s) + 1 \/ ~IsSpace(s[e])

LiteralAt(s, k, lit) ==
  /\ k + Len(lit) - 1 <= Len(s)
  /\ \A t \in 1..Len(lit) : s[k + t - 1] = lit[t]

\* (\d+)\s*<unit> matches at position i.  \d+ and \s* are greedy; giving a
\* digit or a blank back never helps because the unit starts with a letter.
UnitMatchAt(s, i, unit) ==
  /\ IsDigit(s[i])
  /\ LiteralAt(s, SkipSpaces(s, DigitRunEnd(s, i) + 1), unit)

\* re.findall(r'(\d+)\s*<unit>', s)[:1] : the group of the leftmost match,
\* <<>> when findall returns the empty list
FindFirst(s, unit) ==
  LET hits == {i \in 1..Len(s) : UnitMatchAt(s, i, unit)}
  IN IF hits = {} THEN <<>>
     ELSE LET i == CHOOSE m \in hits : \A n \in hits : m <= n
          IN SubSeq(s, i, DigitRunEnd(s, i))

\* seconds part of parse_duration, line 83:
\*   total_minutes += int(seconds[0]) // 60 if int(seconds[0]) >= 30 else 0
SecondsPart(sec) == IF sec >= 30 THEN sec \div 60 ELSE 0

parse_duration(duration_str) ==
  IF IsNa(duration_str) THEN 0
  ELSE LET hours == FindFirst(duration_str, <<"h">>)
           minutes == FindFirst(duration_str, <<"m", "i", "n">>)
           seconds == FindFirst(duration_str, <<"s">>)
       IN (IF hours # <<>> THEN ToInt(hours) * 60 ELSE 0)
          + (IF minutes # <<>> THEN ToInt(minutes) ELSE 0)
          + (IF seconds # <<>> THEN SecondsPart(ToInt(seconds)) ELSE 0)

\* f"{hours}:{remainder_minutes:02d}"
minutes_to_hours(minutes) ==
  LET hours == minutes \div 60
      remainder_minutes == minutes % 60
  IN ToStr(hours) \o <<":">>
     \o (IF remainder_minutes < 10 THEN <<"0">> ELSE <<>>)
     \o ToStr(remainder_minutes)

\* df['Incident Info'].str.extract(r'(GV-\d+)') for one label: the leftmost
\* match, NaN when there is none
ExtractGV(label) ==
  LET hits == {i \in 1..Len(label) :
                 /\ LiteralAt(label, i, <<"G", "V", "-">>)
                 /\ i + 3 <= Len(label)
                 /\ IsDigit(label[i + 3])}
  IN IF hits = {} THEN NaN
     ELSE LET i == CHOOSE m \in hits : \A n \in hits : m <= n
          IN SubSeq(label, i, DigitRunEnd(label, i + 3))

\* lines 119-120: extract, then fillna with the label itself
IncidentID(label) ==
  IF IsNa(ExtractGV(label)) THEN label ELSE ExtractGV(label)

\* os.path.basename(subdir); subdir is the sequence of folder names
Basename(subdir) == subdir[Len(subdir)]

\* ------------------------------------------------------ DataFrame helpers
SeqsUpTo(S, n) == UNION {[1..k -> S] : k \in 0..n}

RECURSIVE SumSet(_, _)
\* sum of f over the index set idx, skipping NaN as pandas sum does
SumSet(f, idx) ==
  IF idx = {} THEN 0
  ELSE LET i == CHOOSE j \in idx : TRUE
       IN (IF f[i] = NaNNum THEN 0 ELSE f[i]) + SumSet(f, idx \ {i})

Column(frame, name) == [i \in 1..Len(frame) |-> frame[i][name]]

\* df[name] = values  (adds or replaces a column)
WithColumn(frame, name, values) ==
  [i \in 1..Len(frame) |->
     [c \in (DOMAIN frame[i]) \cup {name} |->
        IF c = name THEN values[i] ELSE frame[i][c]]]

\* line 98 and 99: tag the table with the folder name and concatenate
TagAndConcat(frame, file) ==
  frame \o WithColumn(file.table, "IncidentInfo",
                      [i \in 1..Len(file.table) |-> Basename(file.subdir)])

\* the key of a row in groupby(['Incident ID', 'Enviar e-mail'])
KeyOf(row) == <<row.IncidentID, row.Email>>

KeyLess(k1, k2) ==
  \/ StrLess(k1[1], k2[1])
  \/ k1[1] = k2[1] /\ StrLess(k1[2], k2[2])

RECURSIVE SortKeys(_)
\* groupby sorts the group keys
SortKeys(S) ==
  IF S = {} THEN <<>>
  ELSE LET m == CHOOSE k \in S : \A o \in S : o = k \/ KeyLess(k, o)
       IN <<m>> \o SortKeys(S \ {m})

\* groupby drops the rows whose key holds a missing value (dropna=True)
GroupKeys(frame) ==
  {KeyOf(frame[i]) : i \in {j \in 1..Len(frame) : ~IsNa(frame[j].Email)}}

GroupIdx(frame, key) == {i \in 1..Len(frame) : KeyOf(frame[i]) = key}

\* nunique taken for count: every row of the group counts
NUniqueAsCount(frame, idx) == Cardinality(idx)

\* SeriesGroupBy.nunique over the rows idx
NUnique(frame, idx) == Cardinality({frame[i].IncidentInfo : i \in idx})

\* line 123, right-hand side: transform('nunique') is indexed like df, one
\* value per ROW of df (missing where the row's key is missing)
TransformNUnique(frame) ==
  [i \in 1..Len(frame) |->
     IF IsNa(frame[i].Email) THEN NaNNum
     ELSE NUnique(frame, GroupIdx(frame, KeyOf(frame[i])))]

\* line 123, assignment: the Series is aligned with aggregated_df on the
\* index label, so record k takes the value of ROW k of df
AlignOnIndex(series, k) == IF k \in DOMAIN series THEN series[k] ELSE NaNNum

\* lines 122-124
AggregateParticipants(frame) ==
  LET keys == SortKeys(GroupKeys(frame))
      nunique == TransformNUnique(frame)
  IN [k \in 1..Len(keys) |->
        LET minutes == SumSet(Column(frame, "Minutes"), GroupIdx(frame, keys[k]))
        IN [IncidentID |-> keys[k][1],
            Email |-> keys[k][2],
            Minutes |-> minutes,
            MeetingsAttended |-> AlignOnIndex(nunique, k),
            Duration |-> minutes_to_hours(minutes)]]

\* ------------------------------------------------------ cost calculation
\* line 43: .map(wage_info['employees']).fillna('Supplier')
RoleOf(email, employees) ==
  IF email \in DOMAIN employees THEN employees[email] ELSE "Supplier"

\* line 44: .map(wage_info['wages']); a role without wage maps to NaN
HourlyWage(role, wages) ==
  IF role \in DOMAIN wages THEN wages[role] ELSE NaNNum

\* minutes // 60 * wage: whole hours only
RowCostWholeHours(minutes, wage) ==
  IF wage = NaNNum THEN NaNNum ELSE (minutes \div 60) * 60 * wage

\* line 46: minutes / 60 * wage.  Costs are kept as exact multiples of 1/60
\* of the currency unit: the value stored is 60 * cost.
RowCost(minutes, wage) ==
  IF wage = NaNNum THEN NaNNum ELSE minutes * wage

\* lines 43-46: the three columns added to df
WithCostColumns(frame, info) ==
  LET role == [i \in 1..Len(frame) |-> RoleOf(frame[i].Email, info["employees"])]
      wage == [i \in 1..Len(frame) |-> HourlyWage(role[i], info["wages"])]
      cost == [i \in 1..Len(frame) |-> RowCost(frame[i].Minutes, wage[i])]
  IN WithColumn(WithColumn(WithColumn(frame, "Role", role),
                           "HourlyWage", wage), "Cost", cost)

RECURSIVE SortStrs(_)
SortStrs(S) ==
  IF S = {} THEN <<>>
  ELSE LET m == CHOOSE k \in S : \A o \in S : o = k \/ StrLess(k, o)
       IN <<m>> \o SortStrs(S \ {m})

\* lines 49-69 on the frame that already holds Role, HourlyWage and Cost:
\* one record per incident, one cost and one duration per role of the
\* dataset (0 where unstack fills), the meetings of the incident, the totals
CostsAndDurations(frame) ==
  LET ids == SortStrs({frame[i].IncidentID : i \in 1..Len(frame)})
      roles == {frame[i].Role : i \in 1..Len(frame)}
  IN [k \in 1..Len(ids) |->
        LET ofIncident == {i \in 1..Len(frame) : frame[i].IncidentID = ids[k]}
            ofRole(r) == {i \in ofIncident : frame[i].Role = r}
            tc == [r \in roles |-> SumSet(Column(frame, "Cost"), ofRole(r))]
            td == [r \in roles |-> SumSet(Column(frame, "Minutes"), ofRole(r))]
        IN [IncidentID |-> ids[k],
            Total_Cost |-> tc,
            Total_Duration |-> td,
            MeetingsAttended |-> NUnique(frame, ofIncident),
            TotalDuration |-> SumSet(td, roles),
            TotalCost |-> SumSet(tc, roles)]]

\* total_costs_durations initialised before the try of line 127
IsBoundAlways(local) == TRUE

\* line 138 reads the local total_costs_durations: bound only when line 128
\* returned
IsBound(local) == local.bound

\* ------------------------------------------------------------- the state
VARIABLES
  pc,                     \* the step main() executes next
  files,                  \* what os.walk(root_folder) yields, in walk order
  wage_json,              \* the content of wage_info.json
  wage_info,              \* main's local wage_info
  file_idx,               \* position of the loop of aggregate_excel_files
  df,                     \* main's df (aggregated_df inside the loop)
  aggregated_df,          \* main's aggregated_df, lines 122-124
  total_costs_durations,  \* main's local of line 128
  cost_error,             \* what the handlers of lines 132-135 printed
  error,                  \* what the handler of lines 144-146 logged
  output_files,           \* files written into the output directory
  exit_status             \* <<>> while running, <<status>> after the exit

vars == <<pc, files, wage_json, wage_info, file_idx, df, aggregated_df,
          total_costs_durations, cost_error, error, output_files, exit_status>>

\* ----------------------------------------------------------- input texts
EmailA == <<"a", "@", "x", ".", "c", "o", "m">>
EmailB == <<"b", "@", "x", ".", "c", "o", "m">>

GV100 == <<"G", "V", "-", "1", "0", "0">>
Misc == <<"M", "i", "s", "c">>
SyncGV100 == <<"S", "y", "n", "c", " ", "G", "V", "-", "1", "0", "0">>
RootFolder == <<"d", "a", "t", "a">>

DirFirst == <<RootFolder, <<"m", "1">>, GV100>>
DirSecond == <<RootFolder, <<"m", "2">>, GV100>>
DirSync == <<RootFolder, SyncGV100>>
DirMisc == <<RootFolder, Misc>>

Text1h == <<"1", "h">>
Text30min == <<"3", "0", "m", "i", "n">>
Text45min == <<"4", "5", "m", "i", "n">>
Text10min == <<"1", "0", "m", "i", "n">>

\* a spreadsheet with one attendance row
OneRowFile(subdir, email, duration) ==
  [subdir |-> subdir, table |-> <<[Duracao |-> duration, Email |-> email]>>]

FilesOver(dirs, emails, durations) ==
  {OneRowFile(d, e, t) : d \in dirs, e \in emails, t \in durations}

WageInfo(employees, wages) ==
  [k \in {"employees", "wages"} |-> IF k = "employees" THEN employees ELSE wages]

AllWages == [r \in {"Engineer", "Manager", "Supplier"} |->
               IF r = "Engineer" THEN 100 ELSE IF r = "Manager" THEN 150 ELSE 40]

Restrict(f, S) == [x \in S |-> f[x]]

\* the state at the entry of main(); inputs is a set of <<files, wage_json>>
StartState(inputs) ==
  /\ pc = "load_wage_info"
  /\ \E input \in inputs : files = input[1] /\ wage_json = input[2]
  /\ wage_info = <<>>
  /\ file_idx = 1
  /\ df = <<>>
  /\ aggregated_df = <<>>
  /\ total_costs_durations = [bound |-> FALSE, rows |-> <<>>]
  /\ cost_error = "none"
  /\ error = "none"
  /\ output_files = 0
  /\ exit_status = <<>>

\* ------------------------------------------------------------ the steps
\* lines 144-146: the handler of main logs and prints, main returns
Fail(msg) ==
  /\ error' = msg
  /\ pc' = "returned"
  /\ UNCHANGED <<files, wage_json, wage_info, file_idx, df, aggregated_df,
                 total_costs_durations, cost_error, output_files, exit_status>>

\* line 104
LoadWageInfo ==
  /\ pc = "load_wage_info"
  /\ wage_info' = wage_json
  /\ pc' = "load_config"
  /\ UNCHANGED <<files, wage_json, file_idx, df, aggregated_df,
                 total_costs_durations, cost_error, error, output_files,
                 exit_status>>

\* lines 36-39
LoadWageInfoFails ==
  /\ pc = "load_wage_info"
  /\ \E msg \in {"Wage information file not found", "Wage information file is not valid JSON"} :
       Fail(msg)

\* lines 105-109
LoadConfig ==
  /\ pc = "load_config"
  /\ pc' = "makedirs"
  /\ UNCHANGED <<files, wage_json, wage_info, file_idx, df, aggregated_df,
                 total_costs_durations, cost_error, error, output_files,
                 exit_status>>

\* lines 22-27 (constructing JSONDecodeError with one argument raises a
\* TypeError instead), and the KeyError of lines 107-108
LoadConfigFails ==
  /\ pc = "load_config"
  /\ \E msg \in {"Configuration file not found", "TypeError", "'root_folder'", "'output_directory'"} :
       Fail(msg)

\* lines 112-114
MakeDirs ==
  /\ pc = "makedirs"
  /\ pc' = "walk"
  /\ UNCHANGED <<files, wage_json, wage_info, file_idx, df, aggregated_df,
                 total_costs_durations, cost_error, error, output_files,
                 exit_status>>

MakeDirsFails ==
  /\ pc = "makedirs"
  /\ Fail("OSError")

\* lines 93-99: one iteration of the loop over the walked files
ReadFile ==
  /\ pc = "walk"
  /\ file_idx <= Len(files)
  /\ df' = TagAndConcat(df, files[file_idx])
  /\ file_idx' = file_idx + 1
  /\ UNCHANGED <<pc, files, wage_json, wage_info, aggregated_df,
                 total_costs_durations, cost_error, error, output_files,
                 exit_status>>

\* line 97 raises
ReadFileFails ==
  /\ pc = "walk"
  /\ file_idx <= Len(files)
  /\ Fail("InputReadError")

\* line 100 and 117-118
EndWalk ==
  /\ pc = "walk"
  /\ file_idx > Len(files)
  /\ pc' = "extract"
  /\ UNCHANGED <<files, wage_json, wage_info, file_idx, df, aggregated_df,
                 total_costs_durations, cost_error, error, output_files,
                 exit_status>>

\* lines 119-120
ExtractIncidentID ==
  /\ pc = "extract"
  /\ Len(df) > 0
  /\ df' = WithColumn(df, "IncidentID",
                      [i \in 1..Len(df) |-> IncidentID(df[i].IncidentInfo)])
  /\ pc' = "parse"
  /\ UNCHANGED <<files, wage_json, wage_info, file_idx, aggregated_df,
                 total_costs_durations, cost_error, error, output_files,
                 exit_status>>

\* line 119 on pd.DataFrame(): no file was read, there is no column
ExtractKeyError ==
  /\ pc = "extract"
  /\ Len(df) = 0
  /\ Fail("'Incident Info'")

\* line 121
ParseDurations ==
  /\ pc = "parse"
  /\ df' = WithColumn(df, "Minutes",
                      [i \in 1..Len(df) |-> parse_duration(df[i].Duracao)])
  /\ pc' = "groupby"
  /\ UNCHANGED <<files, wage_json, wage_info, file_idx, aggregated_df,
                 total_costs_durations, cost_error, error, output_files,
                 exit_status>>

\* lines 122-125
GroupBy ==
  /\ pc = "groupby"
  /\ aggregated_df' = AggregateParticipants(df)
  /\ pc' = "cost"
  /\ UNCHANGED <<files, wage_json, wage_info, file_idx, df,
                 total_costs_durations, cost_error, error, output_files,
                 exit_status>>

\* lines 127-131 (line 131 only renames the columns of the result)
CalculateCost ==
  /\ pc = "cost"
  /\ {"employees", "wages"} \subseteq DOMAIN wage_info
  /\ df' = WithCostColumns(df, wage_info)
  /\ total_costs_durations' = [bound |-> TRUE, rows |-> CostsAndDurations(df')]
  /\ pc' = "to_excel"
  /\ UNCHANGED <<files, wage_json, wage_info, file_idx, aggregated_df,
                 cost_error, error, output_files, exit_status>>

\* lines 43-44 raise KeyError, lines 132-133 print it and main goes on
CalculateCostKeyError ==
  /\ pc = "cost"
  /\ ~({"employees", "wages"} \subseteq DOMAIN wage_info)
  /\ IF "employees" \in DOMAIN wage_info
     THEN /\ df' = WithColumn(df, "Role",
                      [i \in 1..Len(df) |-> RoleOf(df[i].Email, wage_info["employees"])])
          /\ cost_error' = "Column not found in DataFrame: 'wages'"
     ELSE /\ df' = df
          /\ cost_error' = "Column not found in DataFrame: 'employees'"
  /\ pc' = "to_excel"
  /\ UNCHANGED <<files, wage_json, wage_info, file_idx, aggregated_df,
                 total_costs_durations, error, output_files, exit_status>>

\* lines 138-139
ToExcel ==
  /\ pc = "to_excel"
  /\ IsBound(total_costs_durations)
  /\ output_files' = output_files + 1
  /\ pc' = "finish"
  /\ UNCHANGED <<files, wage_json, wage_info, file_idx, df, aggregated_df,
                 total_costs_durations, cost_error, error, exit_status>>

\* line 138 when line 128 raised: UnboundLocalError
ToExcelUnbound ==
  /\ pc = "to_excel"
  /\ ~IsBound(total_costs_durations)
  /\ Fail("local variable 'total_costs_durations' referenced before assignment")

\* line 138: to_excel raises, nothing is written
ToExcelFails ==
  /\ pc = "to_excel"
  /\ IsBound(total_costs_durations)
  /\ Fail("OutputWriteError")

\* lines 141-143
Finish ==
  /\ pc = "finish"
  /\ pc' = "returned"
  /\ UNCHANGED <<files, wage_json, wage_info, file_idx, df, aggregated_df,
                 total_costs_durations, cost_error, error, output_files,
                 exit_status>>

\* lines 148-149: main() returned normally, the interpreter exits with 0
Exit ==
  /\ pc = "returned"
  /\ pc' = "exited"
  /\ exit_status' = <<0>>
  /\ UNCHANGED <<files, wage_json, wage_info, file_idx, df, aggregated_df,
                 total_costs_durations, cost_error, error, output_files>>

Next ==
  \/ LoadWageInfo
  \/ LoadWageInfoFails
  \/ LoadConfig
  \/ LoadConfigFails
  \/ MakeDirs
  \/ MakeDirsFails
  \/ ReadFile
  \/ ReadFileFails
  \/ EndWalk
  \/ ExtractIncidentID
  \/ ExtractKeyError
  \/ ParseDurations
  \/ GroupBy
  \/ CalculateCost
  \/ CalculateCostKeyError
  \/ ToExcel
  \/ ToExcelUnbound
  \/ ToExcelFails
  \/ Finish
  \/ Exit

\* ------------------------------------------------------ specifications
GoodWages == WageInfo([e \in {EmailA} |-> "Engineer"], AllWages)

\* wage_info.json that is valid JSON but lacks a key
BrokenWages ==
  {Restrict(GoodWages, {"wages"}), Restrict(GoodWages, {"employees"})}

\* inputs every specification has: an empty folder, a broken wage file
EdgeInputs ==
  {<<fs, w>> : fs \in SeqsUpTo(FilesOver({DirMisc}, {EmailA}, {Text1h}), 1),
               w \in {GoodWages} \cup BrokenWages}

\* main over a small folder tree, every failure of the environment included
InitMain ==
  StartState(EdgeInputs \cup
    {<<fs, w>> :
       fs \in SeqsUpTo(FilesOver({DirFirst, DirMisc}, {EmailA}, {Text1h}), MaxFiles),
       w \in {GoodWages} \cup BrokenWages})

Spec == InitMain /\ [][Next]_vars

\* duration texts: every text of at most MaxLen characters over ParseChars,
\* the missing value, and the longer examples
ParseChars == {"0", "1", "2", "4", "h", "m", "i", "n", "s", " "}

ExampleTexts ==
  { <<"1", "h", " ", "3", "0", "m", "i", "n">>,
    <<"4", "5", "m", "i", "n", " ", "4", "0", "s">>,
    <<"4", "5", "m", "i", "n", " ", "2", "0", "s">>,
    <<"1", "h", " ", "2", "3", "m", "i", "n", " ", "1", "0", "s">>,
    <<"5", "9", "s">>,
    <<"2", "h">> }

DurationTexts == SeqsUpTo(ParseChars, MaxLen) \cup ExampleTexts \cup {NaN}

InitParse ==
  StartState(EdgeInputs \cup
    {<<fs, GoodWages>> :
       fs \in {<<f>> : f \in FilesOver({DirMisc}, {EmailA}, DurationTexts)}})

SpecParse == InitParse /\ [][Next]_vars

\* per-participant aggregation: two labels of one incident, another
\* incident, a missing participant
InitAgg ==
  StartState(EdgeInputs \cup
    {<<fs, GoodWages>> :
       fs \in SeqsUpTo(FilesOver({DirFirst, DirSync, DirMisc}, {EmailA, NaN},
                                 {Text30min, Text45min}), MaxFiles)})

SpecAgg == InitAgg /\ [][Next]_vars

\* end to end: two folders of the same name, a third folder
InitE2E ==
  StartState(EdgeInputs \cup
    {<<fs, GoodWages>> :
       fs \in SeqsUpTo(FilesOver({DirFirst, DirSecond, DirMisc}, {EmailA},
                                 {Text1h, Text30min, Text10min}), MaxFiles)})

SpecE2E == InitE2E /\ [][Next]_vars

\* cost calculation: the employees and wages mappings vary
EmployeeMaps ==
  { [e \in {} |-> "Engineer"],
    [e \in {EmailA} |-> "Engineer"],
    [e \in {EmailA, EmailB} |-> IF e = EmailA THEN "Engineer" ELSE "Manager"] }

WageMaps == {Restrict(AllWages, R) : R \in SUBSET DOMAIN AllWages}

InitCost ==
  StartState(EdgeInputs \cup
    {<<fs, WageInfo(em, wm)>> :
       fs \in SeqsUpTo(FilesOver({DirFirst, DirMisc}, {EmailA, EmailB, NaN},
                                 {Text30min, Text1h}), MaxCostFiles),
       em \in EmployeeMaps, wm \in WageMaps})

SpecCost == InitCost /\ [][Next]_vars

\* ============================================================== claims
\* the per-participant aggregation has run and main has not yet left
Aggregated == pc \in {"cost", "to_excel", "finish"}

\* the records of aggregated_df as (IncidentId, participantId, totalMinutes,
\* meetingsAttended)
Summary(agg) ==
  {<<agg[k].IncidentID, agg[k].Email, agg[k].Minutes, agg[k].MeetingsAttended>> :
     k \in 1..Len(agg)}

RECURSIVE PlainSum(_, _)
\* the sum of f over idx
PlainSum(f, idx) ==
  IF idx = {} THEN 0
  ELSE LET i == CHOOSE j \in idx : TRUE IN f[i] + PlainSum(f, idx \ {i})

\* ---- C1
\* hours*60 + minutes + (1 if seconds >= 30 else 0) over the first matches
ClaimedMinutes(text) ==
  IF IsNa(text) THEN 0
  ELSE LET h == FindFirst(text, <<"h">>)
           m == FindFirst(text, <<"m", "i", "n">>)
           sec == FindFirst(text, <<"s">>)
       IN ToInt(h) * 60 + ToInt(m) + (IF ToInt(sec) >= 30 THEN 1 ELSE 0)

\* C1: parse_duration returns 0 for a missing text and otherwise
\* hours*60 + minutes + (1 if seconds >= 30 else 0): the seconds add at most
\* one minute, and exactly one from 30 seconds on.
C1_SecondsRoundToOneMinute ==
  pc = "groupby" =>
    \A i \in 1..Len(df) : df[i].Minutes = ClaimedMinutes(df[i].Duracao)

\* ---- C2
\* C2: every record of the per-participant aggregation has meetingsAttended
\* equal to the number of distinct labels among the input rows of its key,
\* whatever the order of the rows.
C2_MeetingsAreDistinctLabelsOfKey ==
  Aggregated =>
    \A k \in 1..Len(aggregated_df) :
      aggregated_df[k].MeetingsAttended =
        Cardinality({df[i].IncidentInfo :
                       i \in {j \in 1..Len(df) :
                                /\ df[j].IncidentID = aggregated_df[k].IncidentID
                                /\ df[j].Email = aggregated_df[k].Email}})

\* ---- C3
\* C3: the aggregation partitions ALL rows by (resolve(label), participant),
\* a missing participant being a key value like any other: one record per
\* key of the input, its totalMinutes the sum over the rows of the key.
C3_EveryRowIsGrouped ==
  Aggregated =>
    LET keyOfRow == [i \in 1..Len(df) |-> <<df[i].IncidentID, df[i].Email>>]
        keys == {keyOfRow[i] : i \in 1..Len(df)}
    IN /\ {<<aggregated_df[k].IncidentID, aggregated_df[k].Email>> :
             k \in 1..Len(aggregated_df)} = keys
       /\ Len(aggregated_df) = Cardinality(keys)
       /\ \A k \in 1..Len(aggregated_df) :
            aggregated_df[k].Minutes =
              PlainSum([i \in 1..Len(df) |-> parse_duration(df[i].Duracao)],
                       {i \in 1..Len(df) :
                          keyOfRow[i] = <<aggregated_df[k].IncidentID,
                                          aggregated_df[k].Email>>})

\* ---- C4
\* some row's participant maps to a role that has no wage
KnownRoleWithoutWage ==
  /\ {"employees", "wages"} \subseteq DOMAIN wage_info
  /\ \E i \in 1..Len(df) :
       /\ df[i].Email \in DOMAIN wage_info["employees"]
       /\ wage_info["employees"][df[i].Email] \notin DOMAIN wage_info["wages"]

\* C4: when a row's participant maps to a role without wage, the cost
\* computation fails with a reported error and produces no result; the
\* missing wage is never a zero cost.
C4_MissingWageIsAnError ==
  (pc = "to_excel" /\ KnownRoleWithoutWage) =>
    (cost_error # "none" /\ ~total_costs_durations.bound)

\* ---- C5
\* what the environment, not the input, makes fail
EnvironmentErrors ==
  {"Wage information file not found", "Wage information file is not valid JSON",
   "Configuration file not found", "TypeError", "'root_folder'",
   "'output_directory'", "OSError", "InputReadError", "OutputWriteError"}

\* C5: with an empty input row set the aggregation returns an empty result
\* and the run does not end in an error because of the empty input.
C5_EmptyInputIsNoError ==
  (pc \in {"returned", "exited"} /\ Len(files) = 0
     /\ error \notin EnvironmentErrors /\ cost_error = "none") =>
    (error = "none" /\ aggregated_df = <<>>)

\* ---- C6
\* the three files of the scenario, in any walk order
Scenario ==
  /\ Len(files) = 3
  /\ {files[i] : i \in 1..3} =
       {OneRowFile(DirFirst, EmailA, Text1h),
        OneRowFile(DirSecond, EmailA, Text30min),
        OneRowFile(DirMisc, EmailA, Text10min)}

\* C6: in the scenario the output has exactly the groups GV-100 (90 minutes,
\* 2 meetings) and Misc (10 minutes, 1 meeting): the two folders named
\* GV-100 count as two meetings.
C6_SameNamedFoldersAreTwoMeetings ==
  (Scenario /\ Aggregated) =>
    /\ Len(aggregated_df) = 2
    /\ Summary(aggregated_df) = {<<GV100, EmailA, 90, 2>>, <<Misc, EmailA, 10, 1>>}

\* C6 as amended: in the scenario the output has exactly the groups GV-100
\* (90 minutes, 1 meeting) and Misc (10 minutes, 1 meeting): the label is
\* the folder name, so the two folders named GV-100 are one label.
C6_SameNamedFoldersAreOneMeeting ==
  (Scenario /\ Aggregated) =>
    /\ Len(aggregated_df) = 2
    /\ Summary(aggregated_df) = {<<GV100, EmailA, 90, 1>>, <<Misc, EmailA, 10, 1>>}

C6_ScenarioAggregated ==
  /\ Scenario
  /\ Aggregated
  /\ Len(df) = 3
  /\ df[1].IncidentInfo = df[2].IncidentInfo

\* ---- C7
\* the role of row i as the claim states it
ClaimedRole(i) ==
  IF df[i].Email \in DOMAIN wage_info["employees"]
  THEN wage_info["employees"][df[i].Email]
  ELSE "Supplier"

ClaimedRoles == {ClaimedRole(i) : i \in 1..Len(df)}

EveryUsedRoleHasWage ==
  /\ {"employees", "wages"} \subseteq DOMAIN wage_info
  /\ \A r \in ClaimedRoles : r \in DOMAIN wage_info["wages"]

\* C7: when every used role has a wage, the result has one record per
\* incident; for every role of the dataset the role's cost is the sum of
\* minutes/60 * wage[role] over the incident's rows of that role and its
\* duration the sum of their minutes (0 when there is none); the totals are
\* the sums over the roles.  (Costs are in 1/60 of the currency unit.)
C7_CostPerIncidentAndRole ==
  (total_costs_durations.bound /\ EveryUsedRoleHasWage) =>
    LET rows == total_costs_durations.rows
        ids == {df[i].IncidentID : i \in 1..Len(df)}
        rowsOf(id, r) == {i \in 1..Len(df) :
                            df[i].IncidentID = id /\ ClaimedRole(i) = r}
    IN /\ {rows[k].IncidentID : k \in 1..Len(rows)} = ids
       /\ Len(rows) = Cardinality(ids)
       /\ \A k \in 1..Len(rows) :
            /\ DOMAIN rows[k].Total_Cost = ClaimedRoles
            /\ DOMAIN rows[k].Total_Duration = ClaimedRoles
            /\ \A r \in ClaimedRoles :
                 /\ rows[k].Total_Cost[r] =
                      PlainSum([i \in 1..Len(df) |->
                                  df[i].Minutes * wage_info["wages"][r]],
                               rowsOf(rows[k].IncidentID, r))
                 /\ rows[k].Total_Duration[r] =
                      PlainSum([i \in 1..Len(df) |-> df[i].Minutes],
                               rowsOf(rows[k].IncidentID, r))
            /\ rows[k].TotalCost = PlainSum(rows[k].Total_Cost, ClaimedRoles)
            /\ rows[k].TotalDuration = PlainSum(rows[k].Total_Duration, ClaimedRoles)

\* an Engineer of 30 minutes at 100 per hour (cost 50), an unmapped
\* participant as Supplier, and a role absent from an incident
C7_TwoRolesTwoIncidents ==
  /\ total_costs_durations.bound
  /\ EveryUsedRoleHasWage
  /\ Len(total_costs_durations.rows) = 2
  /\ ClaimedRoles = {"Engineer", "Supplier"}
  /\ \E k \in 1..2 :
       /\ total_costs_durations.rows[k].Total_Cost["Engineer"] = 50 * 60
       /\ total_costs_durations.rows[k].Total_Duration["Engineer"] = 30
       /\ total_costs_durations.rows[k].Total_Cost["Supplier"] = 0
  /\ \E i \in 1..Len(df) : df[i].Email \notin DOMAIN wage_info["employees"]

\* ---- C8
\* the run has ended: fully succeeded with one file, or failed with none;
\* no file after a failed cost computation
AllOrNothing ==
  /\ pc \in {"returned", "exited"} =>
       \/ error = "none" /\ cost_error = "none" /\ output_files = 1
       \/ error # "none" /\ output_files = 0
  /\ cost_error # "none" => output_files = 0
  /\ output_files <= 1

\* once the handler of main has caught an error nothing is tried again
NoRetry ==
  error # "none" =>
    /\ error' = error
    /\ output_files' = output_files
    /\ pc' \in {"returned", "exited"}

\* C8: whatever step fails, the error is caught by the handler of main, is
\* not retried, and the run ends either fully succeeded with exactly one
\* output file or failed with none; no file is written after a failed cost
\* computation.
C8_AllOrNothing == [](AllOrNothing) /\ [][NoRetry]_vars

C8_FailedCostNoFile ==
  /\ pc = "exited"
  /\ cost_error # "none"
  /\ error # "none"
  /\ output_files = 0

\* ---- C9
\* C9: the exit status is a success status only when the run wrote its
\* output file, and a failure status when a step failed.
C9_ExitStatusReflectsOutcome ==
  pc = "exited" =>
    (exit_status = <<0>> <=> (error = "none" /\ output_files = 1))

\* ---- C10
\* C10: the per-participant aggregation of any permutation of the rows gives
\* the same set of (IncidentId, participantId, totalMinutes,
\* meetingsAttended) records.
C10_OrderOfRowsIsIrrelevant ==
  Aggregated =>
    \A p \in Permutations(1..Len(df)) :
      Summary(AggregateParticipants([i \in 1..Len(df) |-> df[p[i]]]))
        = Summary(aggregated_df)

====
